---- MODULE Spec2Model ----
(***************************************************************************)
(* Model of nested-pie-chart.py: a CSV table of directional risks is       *)
(* loaded, one inner and one outer ring sector is assembled per direction, *)
(* the two collections are merged and written as GeoJSON.                  *)
(*                                                                         *)
(* Text is modelled as sequences of one-character strings, so that         *)
(* str.split and the f-strings are computed and not assumed.  Angles are   *)
(* IEEE-754 binary64 numbers (Python floats), computed bit by bit with     *)
(* round-to-nearest-even, so that the rounding of 360/N, of the products   *)
(* and of the sums is the one the interpreter performs.                    *)
(***************************************************************************)
EXTENDS Integers, Sequences, FiniteSets, TLC

(***************************************************************************)
(* Binary64 arithmetic on non-negative finite values.                      *)
(* A natural number of any size is a sequence of limbs of LimbBits bits,   *)
(* least significant limb first.  A double is <<e, m2, m1, m0>>: its       *)
(* 53-bit significand is m2 * 2^36 + m1 * 2^18 + m0 (top bit set) and its  *)
(* value is significand * 2^e; zero is <<0, 0, 0, 0>>.                     *)
(***************************************************************************)
MantBits == 53

LimbBits == 18

DivPadLimbs == 4

Base == 2 ^ LimbBits

Limb(N, j) == IF j \in 1..Len(N) THEN N[j] ELSE 0

MaxOf(a, b) == IF a > b THEN a ELSE b

\* N * k for a small natural number k
RECURSIVE MulC(_, _, _, _)
MulC(N, k, j, c) ==
  IF j > Len(N) THEN (IF c = 0 THEN <<>> ELSE <<c>>)
  ELSE <<(N[j] * k + c) % Base>> \o MulC(N, k, j + 1, (N[j] * k + c) \div Base)

DivPut(rest, digit) == <<Append(rest[1], digit), rest[2]>>

\* long division of N by a small positive number, from the top limb down:
\* <<quotient, remainder>>
RECURSIVE DivC(_, _, _, _)
DivC(N, n, j, rem) ==
  IF j = 0 THEN <<<<>>, rem>>
  ELSE DivPut(DivC(N, n, j - 1, (rem * Base + N[j]) % n),
              (rem * Base + N[j]) \div n)

RECURSIVE AddC(_, _, _, _)
AddC(A, B, j, c) ==
  IF j > MaxOf(Len(A), Len(B)) THEN (IF c = 0 THEN <<>> ELSE <<c>>)
  ELSE <<(Limb(A, j) + Limb(B, j) + c) % Base>>
         \o AddC(A, B, j + 1, (Limb(A, j) + Limb(B, j) + c) \div Base)

BigAdd(A, B) == AddC(A, B, 1, 0)

\* A - B for A >= B
RECURSIVE SubC(_, _, _, _)
SubC(A, B, j, c) ==
  IF j > MaxOf(Len(A), Len(B)) THEN <<>>
  ELSE <<(Limb(A, j) - Limb(B, j) - c + Base) % Base>>
         \o SubC(A, B, j + 1, IF Limb(A, j) - Limb(B, j) - c < 0 THEN 1 ELSE 0)

BigSub(A, B) == SubC(A, B, 1, 0)

BigLess(A, B) ==
  \E j \in 1..MaxOf(Len(A), Len(B)) :
    /\ Limb(A, j) < Limb(B, j)
    /\ \A h \in (j + 1)..MaxOf(Len(A), Len(B)) : Limb(A, h) = Limb(B, h)

\* N * 2^(LimbBits * q + r)
ShiftLeftBy(N, q, r) ==
  SubSeq([j \in 1..(Len(N) + q + 1) |->
            (Limb(N, j - q) % (2 ^ (LimbBits - r))) * (2 ^ r)
            + Limb(N, j - q - 1) \div (2 ^ (LimbBits - r))],
         1, Len(N) + q + 1)

ShiftLeft(N, s) == ShiftLeftBy(N, s \div LimbBits, s % LimbBits)

\* N \div 2^(LimbBits * q + r)
ShiftRightBy(N, q, r) ==
  SubSeq([j \in 1..Len(N) |->
            Limb(N, j + q) \div (2 ^ r)
            + (Limb(N, j + q + 1) % (2 ^ r)) * (2 ^ (LimbBits - r))],
         1, Len(N))

ShiftRight(N, s) == ShiftRightBy(N, s \div LimbBits, s % LimbBits)

\* the number of bits of N whose top non-zero limb is N[top]
BitLenAt(N, top) ==
  LimbBits * (top - 1)
    + CHOOSE b \in 1..LimbBits : 2 ^ (b - 1) <= N[top] /\ N[top] < 2 ^ b

BitLen(N) ==
  IF \A j \in 1..Len(N) : N[j] = 0 THEN 0
  ELSE BitLenAt(N, CHOOSE j \in 1..Len(N) :
                     N[j] # 0 /\ \A h \in (j + 1)..Len(N) : N[h] = 0)

\* bit p of N, bit 0 the least significant
Bit(N, p) == (Limb(N, p \div LimbBits + 1) \div (2 ^ (p % LimbBits))) % 2

\* some bit of N below bit p is set
LowNonzero(N, p) ==
  \E j \in 1..Len(N) :
    \/ LimbBits * j <= p /\ N[j] # 0
    \/ /\ LimbBits * (j - 1) < p
       /\ p < LimbBits * j
       /\ N[j] % (2 ^ (p - LimbBits * (j - 1))) # 0

FZero == <<0, 0, 0, 0>>

Mant(x) == <<x[4], x[3], x[2]>>

Exp(x) == x[1]

Pack(M, e) == <<e, Limb(M, 3), Limb(M, 2), Limb(M, 1)>>

\* M * 2^e for a significand M of MantBits or MantBits + 1 bits (the carry
\* of a rounding up)
Normal(M, e) ==
  IF BitLen(M) > MantBits THEN Pack(ShiftRight(M, 1), e + 1) ELSE Pack(M, e)

\* N has s bits too many and K is N without them: round to nearest, ties
\* to even
RoundCut(N, K, s, e, sticky) ==
  Normal(IF /\ Bit(N, s - 1) = 1
            /\ (sticky \/ LowNonzero(N, s - 1) \/ K[1] % 2 = 1)
         THEN BigAdd(K, <<1>>)
         ELSE K,
         e + s)

RoundAt(N, e, sticky, L) ==
  IF L = 0 THEN FZero
  ELSE IF L <= MantBits THEN Pack(ShiftLeft(N, MantBits - L), e - (MantBits - L))
  ELSE RoundCut(N, ShiftRight(N, L - MantBits), L - MantBits, e, sticky)

\* the double nearest to N * 2^e (ties to even); sticky says that the exact
\* value lies strictly between N * 2^e and (N + 1) * 2^e
Round(N, e, sticky) == RoundAt(N, e, sticky, BitLen(N))

\* float(n) for an int n >= 0
FromInt(n) == Round(<<n % Base, n \div Base>>, 0, FALSE)

\* x * k for a double x and an int k >= 0
FMulInt(x, k) == Round(MulC(Mant(x), k, 1, 0), Exp(x), FALSE)

RoundQuot(q, e) == Round(q[1], e, q[2] # 0)

\* x / n for a double x and an int n > 0
FDivInt(x, n) ==
  RoundQuot(DivC([j \in 1..DivPadLimbs |-> 0] \o Mant(x), n, DivPadLimbs + 3, 0),
            Exp(x) - DivPadLimbs * LimbBits)

AlignedAt(x, y, e) ==
  [e |-> e,
   a |-> IF x = FZero THEN <<>> ELSE ShiftLeft(Mant(x), Exp(x) - e),
   b |-> IF y = FZero THEN <<>> ELSE ShiftLeft(Mant(y), Exp(y) - e)]

\* both significands over the smaller exponent
Aligned(x, y) ==
  AlignedAt(x, y, IF x = FZero THEN Exp(y)
                  ELSE IF y = FZero THEN Exp(x)
                  ELSE IF Exp(x) < Exp(y) THEN Exp(x) ELSE Exp(y))

AddAligned(al) == Round(BigAdd(al.a, al.b), al.e, FALSE)

SubAligned(al) == Round(BigSub(al.a, al.b), al.e, FALSE)

LessAligned(al) == BigLess(al.a, al.b)

\* x + y
FAdd(x, y) == AddAligned(Aligned(x, y))

\* x - y for x >= y
FSub(x, y) == SubAligned(Aligned(x, y))

\* x < y
FLess(x, y) == LessAligned(Aligned(x, y))

(***************************************************************************)
(* Text: a Python str is a sequence of one-character strings.              *)
(***************************************************************************)
Site == <<"S", "i", "t", "e">>

SepR == <<"_", "R">>

\* the least index at which sep occurs in s, 0 when it does not
Find(s, sep) ==
  LET hits == {p \in 1..(Len(s) - Len(sep) + 1) :
                 SubSeq(s, p, p + Len(sep) - 1) = sep}
  IN  IF hits = {} THEN 0 ELSE CHOOSE p \in hits : \A q \in hits : p <= q

\* str.split(sep) for a non-empty sep
RECURSIVE Split(_, _)
Split(s, sep) ==
  LET p == Find(s, sep)
  IN  IF p = 0 THEN <<s>>
      ELSE <<SubSeq(s, 1, p - 1)>> \o Split(SubSeq(s, p + Len(sep), Len(s)), sep)

\* a key that ignores the tier
RadiusKeyFixed(radius) == <<"R", "1">>

\* f"R{radius}"
RadiusKey(radius) == <<"R">> \o radius

\* f"{direction}_R1" and f"{direction}_R2"
AreaName(direction, tier) == direction \o SepR \o tier

R1 == <<"R", "1">>

R2 == <<"R", "2">>

(***************************************************************************)
(* Values.  None is the value csv.DictReader gives a field that a short    *)
(* row lacks; the loader's center before a Site row is the empty tuple,    *)
(* which like None is false in "if not center".                            *)
(***************************************************************************)
None == "<None>"

NoCenter == <<>>

NoResult == <<>>

NoFile == <<>>

\* dict.setdefault: the first value of a key is kept
DictSetDefault(d, k, v) == [x \in (DOMAIN d) \cup {k} |-> IF x \in DOMAIN d THEN d[x] ELSE v]

\* a dict as a function; d[k] = v
DictSet(d, k, v) == [x \in (DOMAIN d) \cup {k} |-> IF x = k THEN v ELSE d[x]]

EmptyDict == [x \in {} |-> None]

InSeq(x, seq) == \E j \in 1..Len(seq) : seq[j] = x

\* a list that takes a direction each time it is met
AddDirectionAlways(dirs, direction) == Append(dirs, direction)

\* a list that takes a new direction in front
AddDirectionFront(dirs, direction) ==
  IF \E j \in 1..Len(dirs) : dirs[j] = direction THEN dirs ELSE <<direction>> \o dirs

\* "if direction not in directions: directions[direction] = True", the keys
\* of the dict in insertion order
AddDirection(dirs, direction) ==
  IF InSeq(direction, dirs) THEN dirs ELSE Append(dirs, direction)

\* the check of the center left out
CenterNeverMissing(c) == FALSE

\* "not center"
CenterMissing(c) == c = NoCenter

\* the two collections in the other order
MergedOuterFirst(inner, outer) == outer \o inner

\* inner["features"] + outer["features"]
Merged(inner, outer) == inner \o outer

(***************************************************************************)
(* The azimuthal equidistant projection centred on the site, local -> geo. *)
(* The local origin is the site itself; any other local point is kept as   *)
(* its displacement (distance, bearing in degrees) from the site.          *)
(***************************************************************************)
\* (radius * sin(theta), radius * cos(theta)) with theta = radians(angle)
LocalPoint(radius, angle) ==
  IF radius = 0 THEN <<0, 0>> ELSE <<radius, angle>>

\* transformer_to_geo.transform(x, y)
transform(to_geo, xy) ==
  IF xy = <<0, 0>> THEN to_geo
  ELSE <<to_geo[1], to_geo[2], xy[1], xy[2]>>

(***************************************************************************)
(* calculate_arc_points                                                    *)
(***************************************************************************)
DefaultNumPoints == 30

\* the step taken as one of num_points + 1
ArcAngleShortStep(start, end, angle, num_points) ==
  FAdd(start, FDivInt(FMulInt(FSub(end, start), angle), num_points + 1))

\* start_angle + (end_angle - start_angle) * angle / num_points
ArcAngle(start, end, angle, num_points) ==
  FAdd(start, FDivInt(FMulInt(FSub(end, start), angle), num_points))

\* the angles of the num_points + 1 samples, in degrees (none when
\* range(num_points + 1) is empty)
ArcAngles(start, end, num_points) ==
  SubSeq([a \in 1..(num_points + 1) |->
            ArcAngle(start, end, a - 1, num_points)],
         1, num_points + 1)

MaxSegments == 7

\* 360 / num_segments
SegmentWidth(num_segments) == FDivInt(FromInt(360), num_segments)

\* i * (360 / num_segments)
StartAngle(k, num_segments) == FMulInt(SegmentWidth(num_segments), k)

\* start_angle + (360 / num_segments)
EndAngle(start, num_segments) == FAdd(start, SegmentWidth(num_segments))

\* The angle ranges generate_pie_chart passes on, and the sample angles of
\* each for the default num_points: constants, which TLC evaluates once.
RECURSIVE SpansUpTo(_)
SpansUpTo(n) ==
  IF n = 0 THEN <<>>
  ELSE SpansUpTo(n - 1)
         \o SubSeq([k \in 1..n |->
                      <<StartAngle(k - 1, n), EndAngle(StartAngle(k - 1, n), n)>>],
                   1, n)

SectorSpans == SpansUpTo(MaxSegments)

DefaultArcAngles ==
  SubSeq([j \in 1..Len(SectorSpans) |->
            ArcAngles(SectorSpans[j][1], SectorSpans[j][2], DefaultNumPoints)],
         1, Len(SectorSpans))

\* the sample angles of one call
SampleAnglesAt(known, start, end, num_points) ==
  IF num_points = DefaultNumPoints /\ known # {}
  THEN DefaultArcAngles[CHOOSE j \in known : TRUE]
  ELSE ArcAngles(start, end, num_points)

SampleAngles(start, end, num_points) ==
  SampleAnglesAt({j \in 1..Len(SectorSpans) : SectorSpans[j] = <<start, end>>},
                 start, end, num_points)

ArcPoints(to_geo, radius, angles) ==
  SubSeq([a \in 1..Len(angles) |-> transform(to_geo, LocalPoint(radius, angles[a]))],
         1, Len(angles))

\* the points of one call; num_points = 0 divides by zero and is handled
\* by the caller of this operator
calculate_arc_points(c, radius, start, end, to_geo, num_points) ==
  ArcPoints(to_geo, radius, SampleAngles(start, end, num_points))

(***************************************************************************)
(* shapely Polygon(points) and mapping(): one exterior ring, closed with   *)
(* its first vertex when the points do not end on it.                      *)
(***************************************************************************)
Polygon(points) ==
  IF points[1] = points[Len(points)] THEN points ELSE Append(points, points[1])

Feature(ring, area, risk) ==
  [geometry |-> ring, properties |-> [Area |-> area, Risk |-> risk]]

(***************************************************************************)
(* State.  table is input.csv, a sequence of rows (the header names the    *)
(* columns Area, Risk, Lon_NO, Lat_NO).  directions, risks and center are  *)
(* the loader's locals, result is what load_csv_data returned to main.     *)
(* arc_call and arc_points are the arguments and the result of a direct    *)
(* call of calculate_arc_points.                                           *)
(***************************************************************************)
VARIABLES table, pc, row, directions, risks, center, result, err,
          radii, transformer_to_geo, i, start_angle, end_angle,
          inner_features, outer_features, nested_pie_chart, file,
          arc_call, arc_points

vars == <<table, pc, row, directions, risks, center, result, err,
          radii, transformer_to_geo, i, start_angle, end_angle,
          inner_features, outer_features, nested_pie_chart, file,
          arc_call, arc_points>>

loaderVars == <<directions, risks, center>>

chartVars == <<i, start_angle, end_angle, inner_features, outer_features>>

arcVars == <<arc_call, arc_points>>

RadiusInner == 100

RadiusOuter == 200

(***************************************************************************)
(* load_csv_data: one iteration of "for row in reader".                    *)
(***************************************************************************)
LoadRow ==
  /\ pc = "load"
  /\ row <= Len(table)
  /\ LET r     == table[row]
         area  == r.Area
         parts == Split(area, SepR)
     IN  IF area = Site
         THEN /\ center' = <<r.Lon_NO, r.Lat_NO>>
              /\ row' = row + 1
              /\ UNCHANGED <<pc, err, directions, risks>>
         ELSE IF Len(parts) # 2
         THEN \* direction, radius = area.split("_R") cannot unpack
              /\ pc' = "failed"
              /\ err' = "ValueError:unpack"
              /\ UNCHANGED <<row, directions, risks, center>>
         ELSE LET direction  == parts[1]
                  radius_key == RadiusKey(parts[2])
                  risk       == r.Risk
                  dirs       == AddDirection(directions, direction)
              IN  IF radius_key \notin DOMAIN risks
                  THEN \* risks[radius_key] raises KeyError
                       /\ pc' = "failed"
                       /\ err' = "KeyError:tier"
                       /\ directions' = dirs
                       /\ UNCHANGED <<row, risks, center>>
                  ELSE /\ directions' = dirs
                       /\ risks' = [risks EXCEPT
                                      ![radius_key] = DictSet(@, direction, risk)]
                       /\ row' = row + 1
                       /\ UNCHANGED <<pc, err, center>>
  /\ UNCHANGED <<table, result, radii, transformer_to_geo, file, nested_pie_chart>>
  /\ UNCHANGED chartVars
  /\ UNCHANGED arcVars

\* the end of the file: "if not center: raise", else return
LoadEnd ==
  /\ pc = "load"
  /\ row > Len(table)
  /\ IF CenterMissing(center)
     THEN /\ pc' = "failed"
          /\ err' = "ValueError:center"
          /\ UNCHANGED result
     ELSE /\ pc' = "transform"
          /\ result' = <<directions, risks, center>>
          /\ UNCHANGED err
  /\ UNCHANGED <<table, row, radii, transformer_to_geo, file, nested_pie_chart>>
  /\ UNCHANGED loaderVars
  /\ UNCHANGED chartVars
  /\ UNCHANGED arcVars

(***************************************************************************)
(* main: the projection centred on the site, and the call of               *)
(* generate_pie_chart with the radii 100 and 200.                          *)
(***************************************************************************)
MakeTransformers ==
  /\ pc = "transform"
  /\ transformer_to_geo' = result[3]
  /\ pc' = "generate"
  /\ i' = 0
  /\ inner_features' = <<>>
  /\ outer_features' = <<>>
  /\ UNCHANGED <<table, row, result, err, radii, start_angle, end_angle,
                 file, nested_pie_chart>>
  /\ UNCHANGED loaderVars
  /\ UNCHANGED arcVars

(***************************************************************************)
(* generate_pie_chart: one iteration of "for i, direction in               *)
(* enumerate(directions)".                                                 *)
(***************************************************************************)
InnerPoints(c, arc) == <<c>> \o arc \o <<c>>

Reversed(seq) ==
  SubSeq([j \in 1..Len(seq) |-> seq[Len(seq) + 1 - j]], 1, Len(seq))

\* the inner arc taken in its own direction
OuterPointsUnreversed(outer_arc, inner_arc) == outer_arc \o inner_arc

OuterPoints(outer_arc, inner_arc) == outer_arc \o Reversed(inner_arc)

\* the inner and the outer polygon over the two arcs
SectorRings(c, inner_arc, outer_arc) ==
  <<Polygon(InnerPoints(c, inner_arc)), Polygon(OuterPoints(outer_arc, inner_arc))>>

\* the body of the loop for one direction, its angles and its two polygons
SectorBody(direction, rsk, start, end, rings) ==
  /\ start_angle' = start
  /\ end_angle' = end
  /\ IF direction \notin DOMAIN rsk[R1]
     THEN \* risks["R1"][direction] raises KeyError
          /\ pc' = "failed"
          /\ err' = "KeyError:R1"
          /\ UNCHANGED <<i, inner_features, outer_features>>
     ELSE IF direction \notin DOMAIN rsk[R2]
     THEN \* risks["R2"][direction] raises KeyError
          /\ pc' = "failed"
          /\ err' = "KeyError:R2"
          /\ inner_features' =
               Append(inner_features,
                      Feature(rings[1], AreaName(direction, <<"1">>),
                              rsk[R1][direction]))
          /\ UNCHANGED <<i, outer_features>>
     ELSE /\ inner_features' =
               Append(inner_features,
                      Feature(rings[1], AreaName(direction, <<"1">>),
                              rsk[R1][direction]))
          /\ outer_features' =
               Append(outer_features,
                      Feature(rings[2], AreaName(direction, <<"2">>),
                              rsk[R2][direction]))
          /\ i' = i + 1
          /\ UNCHANGED <<pc, err>>

SectorSpan(c, start, end) ==
  SectorBody(result[1][i + 1], result[2], start, end,
             SectorRings(c,
                         calculate_arc_points(c, radii[1], start, end,
                                              transformer_to_geo, DefaultNumPoints),
                         calculate_arc_points(c, radii[2], start, end,
                                              transformer_to_geo, DefaultNumPoints)))

SectorFrom(c, start, num_segments) ==
  SectorSpan(c, start, EndAngle(start, num_segments))

AssembleSector ==
  /\ pc = "generate"
  /\ i < Len(result[1])
  /\ SectorFrom(result[3], StartAngle(i, Len(result[1])), Len(result[1]))
  /\ UNCHANGED <<table, row, result, radii, transformer_to_geo, file,
                 nested_pie_chart>>
  /\ UNCHANGED loaderVars
  /\ UNCHANGED arcVars

\* the loop is over: return the two FeatureCollections
ReturnCollections ==
  /\ pc = "generate"
  /\ i = Len(result[1])
  /\ pc' = "merge"
  /\ UNCHANGED <<table, row, result, err, radii, transformer_to_geo, file,
                 nested_pie_chart>>
  /\ UNCHANGED loaderVars
  /\ UNCHANGED chartVars
  /\ UNCHANGED arcVars

merge_inner_outer ==
  /\ pc = "merge"
  /\ nested_pie_chart' = Merged(inner_features, outer_features)
  /\ pc' = "write"
  /\ UNCHANGED <<table, row, result, err, radii, transformer_to_geo, file>>
  /\ UNCHANGED loaderVars
  /\ UNCHANGED chartVars
  /\ UNCHANGED arcVars

\* open("nested_pie_chart.geojson", "w") and geojson.dump
WriteFile ==
  /\ pc = "write"
  /\ file' = <<nested_pie_chart>>
  /\ pc' = "done"
  /\ UNCHANGED <<table, row, result, err, radii, transformer_to_geo,
                 nested_pie_chart>>
  /\ UNCHANGED loaderVars
  /\ UNCHANGED chartVars
  /\ UNCHANGED arcVars

(***************************************************************************)
(* A direct call of calculate_arc_points.                                  *)
(***************************************************************************)
CallArc ==
  /\ pc = "arc"
  /\ IF arc_call.num_points = 0
     THEN \* angle / num_points raises ZeroDivisionError in the first iteration
          /\ pc' = "failed"
          /\ err' = "ZeroDivisionError"
          /\ UNCHANGED arc_points
     ELSE /\ arc_points' =
               calculate_arc_points(arc_call.center, arc_call.radius,
                                    arc_call.span[1], arc_call.span[2],
                                    arc_call.center, arc_call.num_points)
          /\ pc' = "returned"
          /\ UNCHANGED err
  /\ UNCHANGED <<table, row, result, radii, transformer_to_geo, file,
                 nested_pie_chart, arc_call>>
  /\ UNCHANGED loaderVars
  /\ UNCHANGED chartVars

(***************************************************************************)
(* Inputs.                                                                 *)
(***************************************************************************)
MaxRows == 3

MaxRowsWellFormed == 5

MaxNumPoints == 3

SiteRow(lon, lat) == [Area |-> Site, Risk |-> "", Lon_NO |-> lon, Lat_NO |-> lat]

AreaRow(area, risk) == [Area |-> area, Risk |-> risk, Lon_NO |-> 0, Lat_NO |-> 0]

Letters == <<"A", "B", "C", "D", "E", "F", "G", "H", "J">>

Label(j) == <<Letters[j]>>

WellFormedRows ==
  { SiteRow(10, 45),
    AreaRow(AreaName(Label(1), <<"1">>), "low"),
    AreaRow(AreaName(Label(1), <<"1">>), "high"),
    AreaRow(AreaName(Label(1), <<"2">>), "medium"),
    AreaRow(AreaName(Label(2), <<"1">>), "high"),
    AreaRow(AreaName(Label(2), <<"2">>), "low") }

OtherRows ==
  { SiteRow(0, 0),
    AreaRow(AreaName(Label(1), <<"2">>), ""),
    AreaRow(AreaName(Label(2), <<"1">>), None),
    AreaRow(AreaName(<<>>, <<"1">>), "low"),
    AreaRow(Label(1), "low"),
    AreaRow(AreaName(Label(1), <<"3">>), "low"),
    AreaRow(Label(1) \o SepR, "low"),
    AreaRow(AreaName(AreaName(Label(1), <<"1">>), <<"2">>), "low") }

Tables(rows, n) == UNION {[1..k -> rows] : k \in 0..n}

\* main() before its first statement
InitMain ==
  /\ pc = "load"
  /\ row = 1
  /\ directions = <<>>
  /\ risks = [k \in {R1, R2} |-> EmptyDict]
  /\ center = NoCenter
  /\ result = NoResult
  /\ err = ""
  /\ radii = <<RadiusInner, RadiusOuter>>
  /\ transformer_to_geo = NoCenter
  /\ i = 0
  /\ start_angle = FZero
  /\ end_angle = FZero
  /\ inner_features = <<>>
  /\ outer_features = <<>>
  /\ nested_pie_chart = <<>>
  /\ file = NoFile
  /\ arc_call = <<>>
  /\ arc_points = <<>>

Init ==
  /\ table \in Tables(WellFormedRows \cup OtherRows, MaxRows)
                 \cup Tables(WellFormedRows, MaxRowsWellFormed)
  /\ InitMain

Next ==
  \/ LoadRow
  \/ LoadEnd
  \/ MakeTransformers
  \/ AssembleSector
  \/ ReturnCollections
  \/ merge_inner_outer
  \/ WriteFile

Spec == Init /\ [][Next]_vars

(***************************************************************************)
(* generate_pie_chart and what follows it, entered with the result of      *)
(* loading a table of one Site row and n complete directions.  The radii   *)
(* are parameters of generate_pie_chart: main passes 100 and 200, the pair *)
(* (0, 100) is a call with an inner radius of zero.                        *)
(***************************************************************************)
ChartRisk(j, tier) ==
  IF tier = 1 THEN (IF j % 2 = 1 THEN "low" ELSE "high")
  ELSE (IF j % 2 = 1 THEN "medium" ELSE "low")

ChartTable(n, c) ==
  <<SiteRow(c[1], c[2])>>
    \o [k \in 1..(2 * n) |->
          AreaRow(AreaName(Label((k + 1) \div 2), IF k % 2 = 1 THEN <<"1">> ELSE <<"2">>),
                  ChartRisk((k + 1) \div 2, 2 - (k % 2)))]

InitChart ==
  \E n \in 0..MaxSegments, c \in {<<10, 45>>, <<0, 0>>},
     rr \in {<<RadiusInner, RadiusOuter>>, <<0, RadiusInner>>} :
    /\ table = ChartTable(n, c)
    /\ pc = "transform"
    /\ row = 2 * n + 2
    /\ directions = [j \in 1..n |-> Label(j)]
    /\ risks = [k \in {R1, R2} |->
                  [d \in {Label(j) : j \in 1..n} |->
                     LET j == CHOOSE h \in 1..n : Label(h) = d
                     IN  ChartRisk(j, IF k = R1 THEN 1 ELSE 2)]]
    /\ center = c
    /\ result = <<directions, risks, center>>
    /\ err = ""
    /\ radii = rr
    /\ transformer_to_geo = NoCenter
    /\ i = 0
    /\ start_angle = FZero
    /\ end_angle = FZero
    /\ inner_features = <<>>
    /\ outer_features = <<>>
    /\ nested_pie_chart = <<>>
    /\ file = NoFile
    /\ arc_call = <<>>
    /\ arc_points = <<>>

NextChart ==
  \/ MakeTransformers
  \/ AssembleSector
  \/ ReturnCollections
  \/ merge_inner_outer
  \/ WriteFile

SpecChart == InitChart /\ [][NextChart]_vars

(***************************************************************************)
(* calculate_arc_points called on its own: the angle ranges are those of   *)
(* the sectors, the point counts include the default and the small and     *)
(* negative ones.                                                          *)
(***************************************************************************)
ArcCalls ==
  [center : {<<10, 45>>},
   radius : {RadiusInner, RadiusOuter},
   span : {SectorSpans[j] : j \in 1..Len(SectorSpans)},
   num_points : ((0 - 2)..MaxNumPoints) \cup {DefaultNumPoints}]

InitArc ==
  /\ arc_call \in ArcCalls
  /\ arc_points = <<>>
  /\ pc = "arc"
  /\ table = <<>>
  /\ row = 1
  /\ directions = <<>>
  /\ risks = [k \in {R1, R2} |-> EmptyDict]
  /\ center = NoCenter
  /\ result = NoResult
  /\ err = ""
  /\ radii = <<RadiusInner, RadiusOuter>>
  /\ transformer_to_geo = NoCenter
  /\ i = 0
  /\ start_angle = FZero
  /\ end_angle = FZero
  /\ inner_features = <<>>
  /\ outer_features = <<>>
  /\ nested_pie_chart = <<>>
  /\ file = NoFile

NextArc == CallArc

SpecArc == InitArc /\ [][NextArc]_vars

(***************************************************************************)
(* The vocabulary of the properties, stated on the table alone.            *)
(* An Area has the form <direction>_R<tier> when it ends in "_R1" or       *)
(* "_R2" and the direction before that holds no "_R" of its own.           *)
(***************************************************************************)
IsSite(r) == r.Area = Site

HasSepR(s) == \E p \in 1..(Len(s) - 1) : SubSeq(s, p, p + 1) = SepR

HasForm(area) ==
  /\ Len(area) >= 3
  /\ SubSeq(area, Len(area) - 2, Len(area) - 1) = SepR
  /\ area[Len(area)] \in {"1", "2"}
  /\ ~HasSepR(SubSeq(area, 1, Len(area) - 3))

DirOf(area) == SubSeq(area, 1, Len(area) - 3)

Inner(d) == d \o <<"_", "R", "1">>

Outer(d) == d \o <<"_", "R", "2">>

SiteRows(t) == {j \in 1..Len(t) : IsSite(t[j])}

AreaRows(t) == {j \in 1..Len(t) : ~IsSite(t[j])}

MalformedRows(t) == {j \in AreaRows(t) : ~HasForm(t[j].Area)}

HasArea(t, area) == \E j \in 1..Len(t) : t[j].Area = area

\* the distinct directions of the well-formed rows
Dirs(t) == {DirOf(t[j].Area) : j \in AreaRows(t) \ MalformedRows(t)}

Complete(t, d) == HasArea(t, Inner(d)) /\ HasArea(t, Outer(d))

Valid(t) ==
  /\ SiteRows(t) # {}
  /\ MalformedRows(t) = {}
  /\ \A d \in Dirs(t) : Complete(t, d)

\* the row in which direction d appears first
FirstRow(t, d) ==
  CHOOSE j \in AreaRows(t) :
    /\ HasForm(t[j].Area) /\ DirOf(t[j].Area) = d
    /\ \A h \in 1..(j - 1) : IsSite(t[h]) \/ ~HasForm(t[h].Area) \/ DirOf(t[h].Area) # d

\* the number of directions that appear before d does
Rank(t, d) == Cardinality({o \in Dirs(t) : FirstRow(t, o) < FirstRow(t, d)})

\* the Risk of the last row with this Area
LastRisk(t, area) ==
  t[CHOOSE j \in 1..Len(t) :
      t[j].Area = area /\ \A h \in (j + 1)..Len(t) : t[h].Area # area].Risk

AreaCount(fs, area) == Cardinality({j \in 1..Len(fs) : fs[j].properties.Area = area})

Assembled == pc \in {"merge", "write", "done"}

MergedDone == pc \in {"write", "done"}

(***************************************************************************)
(* C1: a valid table with N distinct directions never fails, and yields N  *)
(* inner features, N outer features and a merged collection of exactly 2N  *)
(* features, one "_R1" and one "_R2" feature for each direction; with no   *)
(* direction at all the collections are empty.                             *)
(***************************************************************************)
C1_TwoFeaturesPerDirection ==
  Valid(table) =>
    /\ pc # "failed"
    /\ Assembled =>
         /\ Len(inner_features) = Cardinality(Dirs(table))
         /\ Len(outer_features) = Cardinality(Dirs(table))
         /\ \A d \in Dirs(table) :
              /\ AreaCount(inner_features, Inner(d)) = 1
              /\ AreaCount(outer_features, Outer(d)) = 1
    /\ MergedDone =>
         /\ Len(nested_pie_chart) = 2 * Cardinality(Dirs(table))
         /\ \A d \in Dirs(table) :
              /\ AreaCount(nested_pie_chart, Inner(d)) = 1
              /\ AreaCount(nested_pie_chart, Outer(d)) = 1
    /\ pc = "done" => file = <<nested_pie_chart>>

C1_Witness ==
  /\ pc = "done"
  /\ Valid(table)
  /\ Cardinality(Dirs(table)) = 2
  /\ Len(nested_pie_chart) = 4

(***************************************************************************)
(* C7: for a valid table every feature carries the Area of its direction   *)
(* and tier and the Risk of the last row of the table with that Area: the  *)
(* inner feature of d has Area d_R1, the outer feature of d has Area d_R2. *)
(***************************************************************************)
C7_RiskOfOwnRow ==
  (Valid(table) /\ Assembled) =>
    /\ \A j \in 1..Len(inner_features) :
         /\ \E d \in Dirs(table) : inner_features[j].properties.Area = Inner(d)
         /\ inner_features[j].properties.Risk
              = LastRisk(table, inner_features[j].properties.Area)
    /\ \A j \in 1..Len(outer_features) :
         /\ \E d \in Dirs(table) : outer_features[j].properties.Area = Outer(d)
         /\ outer_features[j].properties.Risk
              = LastRisk(table, outer_features[j].properties.Area)
    /\ MergedDone =>
         \A j \in 1..Len(nested_pie_chart) :
           nested_pie_chart[j].properties.Risk
             = LastRisk(table, nested_pie_chart[j].properties.Area)

\* a finished run in which two rows share an Area and differ in Risk
C7_Witness ==
  /\ pc = "done"
  /\ Valid(table)
  /\ \E j, h \in 1..Len(table) :
       /\ j < h
       /\ table[j].Area = table[h].Area
       /\ table[j].Risk # table[h].Risk
       /\ \E f \in 1..Len(nested_pie_chart) :
            /\ nested_pie_chart[f].properties.Area = table[h].Area
            /\ nested_pie_chart[f].properties.Risk = table[h].Risk

(***************************************************************************)
(* C8: for a valid table with N distinct directions the merged collection  *)
(* holds the inner features in positions 1..N and the outer features in    *)
(* positions N+1..2N, both in the order in which the directions first      *)
(* appear in the table.                                                    *)
(***************************************************************************)
C8_InnerThenOuterInTableOrder ==
  (Valid(table) /\ MergedDone) =>
    /\ Len(nested_pie_chart) = 2 * Cardinality(Dirs(table))
    /\ \A d \in Dirs(table) :
         /\ nested_pie_chart[Rank(table, d) + 1].properties.Area = Inner(d)
         /\ nested_pie_chart[Cardinality(Dirs(table)) + Rank(table, d) + 1]
              .properties.Area = Outer(d)

\* a finished run whose directions came in the order B, A
C8_Witness ==
  /\ pc = "done"
  /\ Valid(table)
  /\ Cardinality(Dirs(table)) = 2
  /\ nested_pie_chart[1].properties.Area = Inner(Label(2))
  /\ nested_pie_chart[4].properties.Area = Outer(Label(1))

LoaderErrors == {"ValueError:unpack", "KeyError:tier"}

NothingProduced ==
  /\ result = NoResult
  /\ inner_features = <<>>
  /\ outer_features = <<>>
  /\ nested_pie_chart = <<>>
  /\ file = NoFile

(***************************************************************************)
(* C2 as stated: every run on a table without a Site row that fails, fails *)
(* with the loader's "center not found" error.                             *)
(***************************************************************************)
C2_AsStated ==
  (SiteRows(table) = {} /\ pc = "failed") => err = "ValueError:center"

(***************************************************************************)
(* C2, amended: a run on a table without a Site row never leaves the       *)
(* loader and produces nothing; when every row is well-formed it fails     *)
(* after the last row with the "center not found" error, and when some row *)
(* is malformed it fails at such a row with that row's error instead.      *)
(***************************************************************************)
C2_NoSiteFailsInLoader ==
  SiteRows(table) = {} =>
    /\ pc \in {"load", "failed"}
    /\ NothingProduced
    /\ pc = "failed" =>
         IF MalformedRows(table) = {}
         THEN err = "ValueError:center" /\ row = Len(table) + 1
         ELSE err \in LoaderErrors /\ row \in MalformedRows(table)

C2_Witness ==
  /\ SiteRows(table) = {}
  /\ MalformedRows(table) = {}
  /\ Len(table) >= 2
  /\ pc = "failed"
  /\ err = "ValueError:center"

FirstMalformed(t) ==
  CHOOSE j \in MalformedRows(t) : \A h \in MalformedRows(t) : j <= h

(***************************************************************************)
(* C3: when some non-Site row has an Area that is not <direction>_R1 or    *)
(* <direction>_R2, the loader reads no row after the first such row, fails *)
(* at it, returns no result, and nothing is assembled or written.          *)
(***************************************************************************)
C3_FailsAtFirstMalformedRow ==
  MalformedRows(table) # {} =>
    /\ row <= FirstMalformed(table)
    /\ pc \in {"load", "failed"}
    /\ pc = "failed" => (row = FirstMalformed(table) /\ err \in LoaderErrors)
    /\ NothingProduced

\* a failure at the second row of three, on a tier that is neither 1 nor 2
C3_Witness ==
  /\ MalformedRows(table) # {}
  /\ FirstMalformed(table) = 2
  /\ Len(table) = 3
  /\ pc = "failed"
  /\ row = 2
  /\ err = "KeyError:tier"

LacksRisk(r) == ~IsSite(r) /\ HasForm(r.Area) /\ r.Risk \in {"", None}

(***************************************************************************)
(* C4 as stated: the loader does not get past a non-Site row with a        *)
(* well-formed Area and no Risk value, and no feature carries an absent    *)
(* or empty Risk.                                                          *)
(***************************************************************************)
C4_MissingRiskRejected ==
  /\ \A j \in 1..Len(table) : LacksRisk(table[j]) => row <= j
  /\ \A j \in 1..Len(inner_features) :
       inner_features[j].properties.Risk \notin {"", None}
  /\ \A j \in 1..Len(outer_features) :
       outer_features[j].properties.Risk \notin {"", None}

\* a finished run with a feature whose Risk is the empty string of a row
C4_Witness ==
  /\ pc = "done"
  /\ \E j \in 1..Len(table) : LacksRisk(table[j]) /\ table[j].Risk = ""
  /\ \E f \in 1..Len(nested_pie_chart) : nested_pie_chart[f].properties.Risk = ""

Incomplete(t) == {d \in Dirs(t) : ~Complete(t, d)}

FirstIncomplete(t) ==
  CHOOSE d \in Incomplete(t) : \A o \in Incomplete(t) : FirstRow(t, d) <= FirstRow(t, o)

\* the error of the lookup of d in the tier that has no row of d
MissingTierError(t, d) == IF HasArea(t, Inner(d)) THEN "KeyError:R2" ELSE "KeyError:R1"

SomeDirectionIncomplete ==
  /\ SiteRows(table) # {}
  /\ MalformedRows(table) = {}
  /\ Incomplete(table) # {}

(***************************************************************************)
(* C5 as stated: with a Site row and well-formed rows, for each direction  *)
(* that has a row in one tier only, the run fails during the assembly of   *)
(* that direction, on the tier it lacks.                                   *)
(***************************************************************************)
C5_AsStated ==
  (SomeDirectionIncomplete /\ pc = "failed") =>
    \A d \in Incomplete(table) :
      /\ result # NoResult
      /\ result[1][i + 1] = d
      /\ err = MissingTierError(table, d)

(***************************************************************************)
(* C5, amended: with a Site row and well-formed rows of which some         *)
(* direction has a row in one tier only, loading succeeds with every       *)
(* direction in the list, and the run fails during the assembly of the     *)
(* first such direction in list order, on the tier it lacks: after the     *)
(* inner feature when the _R2 row is missing, before it when the _R1 row   *)
(* is missing.  Both features of every earlier direction are assembled,    *)
(* nothing is merged and no file is written.                               *)
(***************************************************************************)
C5_FailsAtFirstIncompleteDirection ==
  SomeDirectionIncomplete =>
    /\ pc \notin {"merge", "write", "done"}
    /\ nested_pie_chart = <<>>
    /\ file = NoFile
    /\ pc # "load" =>
         /\ result # NoResult
         /\ \A d \in Dirs(table) : InSeq(d, result[1])
    /\ pc = "failed" =>
         /\ i = Rank(table, FirstIncomplete(table))
         /\ result[1][i + 1] = FirstIncomplete(table)
         /\ err = MissingTierError(table, FirstIncomplete(table))
         /\ Len(outer_features) = i
         /\ Len(inner_features) = IF err = "KeyError:R2" THEN i + 1 ELSE i
         /\ \A k \in 1..i :
              /\ inner_features[k].properties.Area = Inner(result[1][k])
              /\ outer_features[k].properties.Area = Outer(result[1][k])

\* the second direction lacks its outer row, the first one is assembled
C5_Witness ==
  /\ SomeDirectionIncomplete
  /\ pc = "failed"
  /\ err = "KeyError:R2"
  /\ i = 1
  /\ Len(inner_features) = 2
  /\ Len(outer_features) = 1

(***************************************************************************)
(* C6 as stated: after the sector of the direction with 0-based index      *)
(* i - 1 of N, start_angle is (i - 1) * (360 / N) and end_angle is         *)
(* i * (360 / N), which is the start angle of the next sector, and the     *)
(* last sector ends at 360.                                                *)
(***************************************************************************)
C6_SectorsPartitionCircle ==
  (result # NoResult /\ pc # "failed" /\ i >= 1) =>
    /\ start_angle = FMulInt(FDivInt(FromInt(360), Len(result[1])), i - 1)
    /\ end_angle = FMulInt(FDivInt(FromInt(360), Len(result[1])), i)
    /\ i = Len(result[1]) => end_angle = FromInt(360)

\* the sixth of seven sectors ends past the start of the seventh
C6_Witness ==
  /\ result # NoResult
  /\ pc = "generate"
  /\ Len(result[1]) = 7
  /\ i = 6
  /\ FLess(FMulInt(FDivInt(FromInt(360), 7), 6), end_angle)

\* 2^-40 degrees
Tolerance == <<0 - 92, 65536, 0, 0>>

Close(x, y) ==
  \/ x = y
  \/ FLess(x, y) /\ FLess(FSub(y, x), Tolerance)
  \/ FLess(y, x) /\ FLess(FSub(x, y), Tolerance)

\* the image of the local point at this radius and angle
GeoPoint(c, radius, angle) == <<c[1], c[2], radius, angle>>

AngleOf(point) == point[4]

(***************************************************************************)
(* C9 as stated: a call that returns, returns num_points + 1 points, and   *)
(* the last of them is at end_angle.                                       *)
(***************************************************************************)
C9_AsStated ==
  pc = "returned" =>
    /\ Len(arc_points) = arc_call.num_points + 1
    /\ arc_call.num_points >= 1 =>
         AngleOf(arc_points[arc_call.num_points + 1]) = arc_call.span[2]

(***************************************************************************)
(* C9, amended: a call with num_points >= 1 returns num_points + 1 points, *)
(* the k-th the image of the local point at the angle                      *)
(* start + (end - start) * k / num_points as the doubles compute it; the   *)
(* first is at start_angle exactly, the last within 2^-40 degrees of       *)
(* end_angle.  A call with num_points < 0 returns no point, and a call     *)
(* with num_points = 0 fails with a division by zero.                      *)
(***************************************************************************)
C9_ArcSamples ==
  /\ pc = "returned" =>
       /\ arc_call.num_points # 0
       /\ Len(arc_points) = IF arc_call.num_points >= 1
                            THEN arc_call.num_points + 1 ELSE 0
       /\ \A k \in 0..arc_call.num_points :
            arc_points[k + 1]
              = GeoPoint(arc_call.center, arc_call.radius,
                         FAdd(arc_call.span[1],
                              FDivInt(FMulInt(FSub(arc_call.span[2], arc_call.span[1]), k),
                                      arc_call.num_points)))
       /\ arc_call.num_points >= 1 =>
            /\ AngleOf(arc_points[1]) = arc_call.span[1]
            /\ Close(AngleOf(arc_points[arc_call.num_points + 1]), arc_call.span[2])
  /\ pc = "failed" =>
       /\ arc_call.num_points = 0
       /\ err = "ZeroDivisionError"
       /\ arc_points = <<>>

\* a call whose last point is near end_angle and not at it
C9_Witness ==
  /\ pc = "returned"
  /\ arc_call.num_points >= 1
  /\ Len(arc_points) = arc_call.num_points + 1
  /\ AngleOf(arc_points[arc_call.num_points + 1]) # arc_call.span[2]

ReverseOf(seq) == [j \in 1..Len(seq) |-> seq[Len(seq) + 1 - j]]

\* the arc of the sector with 0-based index k of n at this radius
SectorArc(c, radius, k, n) ==
  calculate_arc_points(c, radius, StartAngle(k, n),
                       EndAngle(StartAngle(k, n), n), c, DefaultNumPoints)

(***************************************************************************)
(* C10: the inner ring of every assembled direction is the center, the     *)
(* inner arc and the center again; the outer ring is the outer arc, then   *)
(* the inner arc of the same angles reversed, then its own first vertex;   *)
(* with 0 < inner radius < outer radius no vertex of the outer ring is the *)
(* center.                                                                 *)
(***************************************************************************)
C10_RingShapes ==
  result # NoResult =>
    /\ \A k \in 1..Len(inner_features) :
         /\ inner_features[k].geometry
              = <<result[3]>>
                  \o SectorArc(result[3], radii[1], k - 1, Len(result[1]))
                  \o <<result[3]>>
         /\ inner_features[k].geometry[1] = result[3]
         /\ inner_features[k].geometry[Len(inner_features[k].geometry)] = result[3]
    /\ \A k \in 1..Len(outer_features) :
         /\ outer_features[k].geometry
              = SectorArc(result[3], radii[2], k - 1, Len(result[1]))
                  \o ReverseOf(SectorArc(result[3], radii[1], k - 1, Len(result[1])))
                  \o <<SectorArc(result[3], radii[2], k - 1, Len(result[1]))[1]>>
         /\ (0 < radii[1] /\ radii[1] < radii[2]) =>
              \A v \in 1..Len(outer_features[k].geometry) :
                outer_features[k].geometry[v] # result[3]

C10_Witness ==
  /\ pc = "done"
  /\ radii = <<RadiusInner, RadiusOuter>>
  /\ Len(result[1]) >= 2
  /\ Len(outer_features) = Len(result[1])
  /\ Len(outer_features[2].geometry) = 2 * (DefaultNumPoints + 1) + 1

====
